---- MODULE Spec2Model ----
(***************************************************************************)
(* StreamingTranscriber of swift-scribe (src/src/lib.rs): one session that *)
(* supervises an external worker process, feeds it 16 kHz mono PCM over    *)
(* the worker's stdin and reads newline-delimited results from its stdout. *)
(*                                                                         *)
(* The caller is a single thread (every method takes &mut self), so a call *)
(* that blocks inside the kernel (read_line on an empty pipe, write_all on *)
(* a full pipe) leaves the caller at a blocked position until the worker   *)
(* makes the call return.  The worker is an independent OS process: it may *)
(* emit output, read its stdin or exit at any time.                        *)
(***************************************************************************)
EXTENDS Integers, Sequences, FiniteSets, TLC

(* ---------------------------- bounds ----------------------------------- *)
MaxWorkers == 2      \* processes the model lets start() spawn
MaxOut == 1          \* complete lines held unread in the stdout pipe
PipeCap == 2         \* bytes the stdin pipe holds before write blocks
MaxChunk == 1        \* samples per feed_audio_* call

(* --------------------------- constants --------------------------------- *)
TARGET_RATE == 16000

AudioInputMode == {"Microphone", "Programmatic"}

\* sample values and call arguments the caller draws from
SampleVals == {-3, 2}
F32Vals == {-4}                  \* f32 samples in halves: -2.0
Rates == {8000, 16000, 32000}    \* ratios 2, 1, 1/2: exact in f64
Channels == {1, 2}

SeqsUpTo(S, n) == UNION {[1..k -> S] : k \in 0..n}
I16Chunks == SeqsUpTo(SampleVals, MaxChunk)
F32Chunks == SeqsUpTo(F32Vals, MaxChunk)

(* ----------------------- worker output lines --------------------------- *)
\* One line of the worker's stdout.  kind "json" is a well-formed record,
\* "garbage" a line that is not one, "trunc" the unterminated prefix of a
\* line left in the pipe when the worker exits in the middle of a line.
Line(kind, text, isFinal, timestamp) ==
    [kind |-> kind, text |-> text, isFinal |-> isFinal, timestamp |-> timestamp]
Good1 == Line("json", "hel", FALSE, 1)
Good2 == Line("json", "hello", TRUE, 2)
NotJson == Line("garbage", "not-json", FALSE, 0)
Trunc == Line("trunc", "", FALSE, 0)
Lines == {Good1, Good2, NotJson}

\* StreamingResult and the value an outcome carries when it carries none
StreamingResult(text, is_final, timestamp) ==
    [text |-> text, is_final |-> is_final, timestamp |-> timestamp]
NoValue == StreamingResult("", FALSE, 0)

\* serde_json::from_str::<StreamingResult>(line.trim())
Decode(l) ==
    IF l.kind = "json"
    THEN [ok |-> TRUE, val |-> StreamingResult(l.text, l.isFinal, l.timestamp)]
    ELSE [ok |-> FALSE, val |-> NoValue]

(* ------------------------ audio normalisation -------------------------- *)
\* Rust integer division and `as` casts truncate toward zero
TruncDiv(a, b) == IF a >= 0 THEN a \div b ELSE -((-a) \div b)
Clamp(x, lo, hi) == IF x < lo THEN lo ELSE IF x > hi THEN hi ELSE x

\* variant: scaled by 32768 (the cast saturates at the i16 range)
F32ToI16Sample_Scale32768(h) ==
    Clamp(TruncDiv(Clamp(h, -2, 2) * 32768, 2), -32768, 32767)

\* f32 sample given in halves: clamp to [-1.0, 1.0], scale by 32767, truncate
F32ToI16Sample(h) == TruncDiv(Clamp(h, -2, 2) * 32767, 2)
f32_to_i16(samples) == [i \in 1..Len(samples) |-> F32ToI16Sample(samples[i])]

\* variant: the interpolated value is rounded down instead of toward zero
ResampleAt_Floors(samples, from_rate, i) ==
    LET idx == (i * from_rate) \div TARGET_RATE
        fracNum == (i * from_rate) % TARGET_RATE
    IN  IF idx + 1 < Len(samples)
        THEN LET s0 == samples[idx + 1]
                 s1 == samples[idx + 2]
             IN  Clamp((s0 * TARGET_RATE + (s1 - s0) * fracNum) \div TARGET_RATE,
                       -32768, 32767)
        ELSE samples[idx + 1]

\* output sample i (0-based) of the interpolating loop, for source index idx
ResampleAt(samples, from_rate, i) ==
    LET idx == (i * from_rate) \div TARGET_RATE
        fracNum == (i * from_rate) % TARGET_RATE
    IN  IF idx + 1 < Len(samples)
        THEN LET s0 == samples[idx + 1]
                 s1 == samples[idx + 2]
             IN  Clamp(TruncDiv(s0 * TARGET_RATE + (s1 - s0) * fracNum, TARGET_RATE),
                       -32768, 32767)
        ELSE samples[idx + 1]

\* from_rate 0 makes ratio infinite: output_len is usize::MAX for a non-empty
\* input (the f64 saturates in the cast) and Vec::with_capacity(usize::MAX)
\* panics with "capacity overflow" before the loop
ResampleOverflows(samples, from_rate) == from_rate = 0 /\ Len(samples) > 0

\* variant: no shortcut for equal rates, and the last sample, which has no
\* successor to interpolate with, is not pushed
resample_i16_NoShortcut(samples, from_rate, channels) ==
    LET n == Len(samples)
        output_len == IF from_rate = 0 THEN 0
                      ELSE (n * TARGET_RATE + from_rate - 1) \div from_rate
        emitted == Cardinality({i \in 0..(output_len - 1) :
                                   (i * from_rate) \div TARGET_RATE + 1 < n})
    IN  [k \in 1..emitted |-> ResampleAt(samples, from_rate, k - 1)]

\* for from_rate 0 and no samples, 0.0 * inf is NaN and NaN as usize is 0
resample_i16(samples, from_rate, channels) ==
    IF from_rate = TARGET_RATE
    THEN samples
    ELSE LET n == Len(samples)
             output_len == IF from_rate = 0 THEN 0
                           ELSE (n * TARGET_RATE + from_rate - 1) \div from_rate
             \* the loop breaks at the first i whose source index is past the end
             emitted == Cardinality({i \in 0..(output_len - 1) :
                                        (i * from_rate) \div TARGET_RATE < n})
         IN  [k \in 1..emitted |-> ResampleAt(samples, from_rate, k - 1)]

RECURSIVE FrameSum(_, _, _, _)
FrameSum(samples, frame_idx, channels, ch) ==
    IF ch = 0 THEN 0
    ELSE FrameSum(samples, frame_idx, channels, ch - 1)
         + samples[frame_idx * channels + ch]

\* variant: the mean is rounded down (floor) instead of toward zero
to_mono_i16_Floors(samples, channels) ==
    IF channels <= 1
    THEN samples
    ELSE LET frames == Len(samples) \div channels
         IN  [f \in 1..frames |->
                Clamp(FrameSum(samples, f - 1, channels, channels) \div channels,
                      -32768, 32767)]

\* variant: a trailing incomplete frame gives one more sample, its first value
to_mono_i16_KeepsTail(samples, channels) ==
    IF channels <= 1
    THEN samples
    ELSE LET frames == (Len(samples) + channels - 1) \div channels
         IN  [f \in 1..frames |->
                IF f * channels <= Len(samples)
                THEN Clamp(TruncDiv(FrameSum(samples, f - 1, channels, channels), channels),
                           -32768, 32767)
                ELSE samples[(f - 1) * channels + 1]]

to_mono_i16(samples, channels) ==
    IF channels <= 1
    THEN samples
    ELSE LET frames == Len(samples) \div channels
         IN  [f \in 1..frames |->
                Clamp(TruncDiv(FrameSum(samples, f - 1, channels, channels), channels),
                      -32768, 32767)]

\* i16::to_le_bytes of every sample, concatenated
RECURSIVE ToLeBytes(_)
ToLeBytes(mono) ==
    IF mono = <<>> THEN <<>>
    ELSE LET u == (Head(mono) + 65536) % 65536
         IN  <<u % 256, u \div 256>> \o ToLeBytes(Tail(mono))

Min(a, b) == IF a <= b THEN a ELSE b

(* ------------------------------ state ---------------------------------- *)
VARIABLES
    builder,      \* StreamingTranscriberBuilder: helper_path ("" = None), input_mode
    helper_path,  \* StreamingTranscriber.helper_path
    launch,       \* every process id -> the Command it was spawned from
    input_mode,   \* StreamingTranscriber.input_mode
    process,      \* StreamingTranscriber.process: 0 = None, else the child's id
    reader,       \* StreamingTranscriber.reader: 0 = None, else the child read from
    stdin,        \* StreamingTranscriber.stdin: 0 = None, else the child written to
    workers,      \* every process id -> "unborn" | "alive" | "zombie" | "reaped"
    stdout,       \* complete lines in the stdout pipe of the child `reader` reads
    partial,      \* the child has written the prefix of a line, no newline yet
    stdinPipe,    \* bytes in the stdin pipe of the child `stdin` writes to
    pending,      \* bytes a blocked write_all still has to write
    pc,           \* caller: "idle", "dropped", or the method it is blocked inside
    norm,         \* one run of the audio normalisation: arguments, stage, values computed
    last          \* the step just taken: operation, outcome, value returned

vars == <<builder, helper_path, launch, input_mode, process, reader, stdin, workers, stdout, partial,
          stdinPipe, pending, pc, norm, last>>

WorkerIds == 1..MaxWorkers

(* ------------------------- helper resolution --------------------------- *)
Local == "./helpers/transcribe_stream"
User == "~/.local/bin/transcribe_stream"
System == "/usr/local/bin/transcribe_stream"
Custom == "/custom/transcribe_stream"
Paths == {Local, User, System, Custom}

\* what a build() call finds outside the program: the files that exist and
\* whether dirs::home_dir() returns a directory
Envs == [fs : SUBSET Paths, home : BOOLEAN]
NoEnv == [fs |-> {}, home |-> FALSE]

\* Path::exists(); the empty path of unwrap_or_default() never exists
Exists(path, env) == path # "" /\ path \in env.fs

\* dirs::home_dir().map(|h| h.join(".local/bin/transcribe_stream")).unwrap_or_default()
UserPath(env) == IF env.home THEN User ELSE ""

default_paths(env) == <<Local, UserPath(env), System>>

\* the loop over default_paths: the first path that exists, "" when none does
RECURSIVE FirstExisting(_, _)
FirstExisting(paths, env) ==
    IF paths = <<>> THEN ""
    ELSE IF Exists(Head(paths), env) THEN Head(paths)
    ELSE FirstExisting(Tail(paths), env)

\* variant: an explicit path is taken without looking for the file
ResolveHelper_NoCheck(explicit, env) ==
    IF explicit # "" THEN explicit ELSE FirstExisting(default_paths(env), env)

\* variant: a missing explicit path falls back to the default locations
ResolveHelper_FallsBack(explicit, env) ==
    IF explicit # "" /\ Exists(explicit, env) THEN explicit
    ELSE FirstExisting(default_paths(env), env)

\* the helper_path computed by build(): "" stands for the Err return
ResolveHelper(explicit, env) ==
    IF explicit # ""
    THEN IF ~Exists(explicit, env) THEN "" ELSE explicit
    ELSE FirstExisting(default_paths(env), env)

(* ------------------------------ commands ------------------------------- *)
NoCommand == [program |-> "", args |-> <<>>, stdin |-> "", stdout |-> "", stderr |-> ""]

\* variant: the helper is always told to read its stdin
CommandFor_AlwaysStdin(program, mode) ==
    [program |-> program, args |-> <<"--stdin">>, stdin |-> "piped",
     stdout |-> "piped", stderr |-> "inherit"]

\* the Command start() builds before spawning
CommandFor(program, mode) ==
    [program |-> program,
     args |-> IF mode = "Programmatic" THEN <<"--stdin">> ELSE <<>>,
     stdin |-> IF mode = "Programmatic" THEN "piped" ELSE "inherit",
     stdout |-> "piped", stderr |-> "inherit"]

NoBuilder == [helper_path |-> "", input_mode |-> ""]

\* what a method returned: the outcome, the StreamingResult of Ok(Some(_)),
\* and the text the Err(String) carries besides its fixed prefix;
\* `ignored` records that the method discarded an io::Error with `let _ =`,
\* `env` what build() found on the file system
Outcome(op, res) ==
    [op |-> op, res |-> res, val |-> NoValue, ctx |-> "", ignored |-> FALSE,
     env |-> NoEnv]

\* the Display text of the serde_json::Error: a category and a position in
\* the input, never the input itself
SerdeError(l) ==
    IF l.kind = "trunc" THEN "EOF while parsing at line 1"
    ELSE "expected value at line 1 column 1"

\* Stdio::piped() creates an ordinary blocking pipe and the crate never sets
\* O_NONBLOCK on the read end it keeps
NonBlocking == FALSE

\* a session as build() returns it, here with the local helper found
\* no normalisation under way
NoNorm ==
    [stage |-> "none", f32 |-> <<>>, samples |-> <<>>, sample_rate |-> 0, channels |-> 0,
     resampled |-> <<>>, mono |-> <<>>, bytes |-> <<>>]

Init ==
    /\ builder = NoBuilder
    /\ norm = NoNorm
    /\ helper_path = Local
    /\ launch = [w \in WorkerIds |-> NoCommand]
    /\ input_mode \in AudioInputMode
    /\ process = 0
    /\ reader = 0
    /\ stdin = 0
    /\ workers = [w \in WorkerIds |-> "unborn"]
    /\ stdout = <<>>
    /\ partial = FALSE
    /\ stdinPipe = <<>>
    /\ pending = <<>>
    /\ pc = "idle"
    /\ last = Outcome("build", "ok")

Callable == pc = "idle"

(* ------------------------------ builder -------------------------------- *)
\* StreamingTranscriber::builder() / StreamingTranscriberBuilder::new()
InitBuild ==
    /\ builder = [helper_path |-> "", input_mode |-> "Microphone"]
    /\ norm = NoNorm
    /\ helper_path = ""
    /\ launch = [w \in WorkerIds |-> NoCommand]
    /\ input_mode = ""
    /\ process = 0
    /\ reader = 0
    /\ stdin = 0
    /\ workers = [w \in WorkerIds |-> "unborn"]
    /\ stdout = <<>>
    /\ partial = FALSE
    /\ stdinPipe = <<>>
    /\ pending = <<>>
    /\ pc = "builder"
    /\ last = Outcome("builder", "ok")

SessionUnchanged ==
    UNCHANGED <<norm, helper_path, launch, input_mode, process, reader, stdin, workers,
                stdout, partial, stdinPipe, pending>>

with_microphone ==
    /\ pc = "builder"
    /\ builder' = [builder EXCEPT !.input_mode = "Microphone"]
    /\ last' = Outcome("with_microphone", "ok")
    /\ UNCHANGED pc
    /\ SessionUnchanged

\* variant: the call leaves the builder's mode as it was
with_programmatic_input_NoEffect ==
    /\ pc = "builder"
    /\ builder' = builder
    /\ last' = Outcome("with_programmatic_input", "ok")
    /\ UNCHANGED pc
    /\ SessionUnchanged

with_programmatic_input ==
    /\ pc = "builder"
    /\ builder' = [builder EXCEPT !.input_mode = "Programmatic"]
    /\ last' = Outcome("with_programmatic_input", "ok")
    /\ UNCHANGED pc
    /\ SessionUnchanged

\* explicit paths the caller passes
ExplicitPaths == {Custom}

with_helper_path ==
    /\ pc = "builder"
    /\ \E path \in ExplicitPaths : builder' = [builder EXCEPT !.helper_path = path]
    /\ last' = Outcome("with_helper_path", "ok")
    /\ UNCHANGED pc
    /\ SessionUnchanged

\* build(self) consumes the builder; Err leaves no session, Ok a session with
\* process, reader and stdin None
build ==
    /\ pc = "builder"
    /\ builder' = NoBuilder
    /\ \E env \in Envs :
          LET found == ResolveHelper(builder.helper_path, env)
          IN  IF found = ""
              THEN /\ pc' = "no_session"
                   /\ last' = [Outcome("build", "config_error") EXCEPT !.env = env]
                   /\ UNCHANGED <<helper_path, input_mode>>
              ELSE /\ pc' = "idle"
                   /\ helper_path' = found
                   /\ input_mode' = builder.input_mode
                   /\ last' = [Outcome("build", "ok") EXCEPT !.env = env]
    /\ process' = 0
    /\ reader' = 0
    /\ stdin' = 0
    /\ UNCHANGED <<norm, launch, workers, stdout, partial, stdinPipe, pending>>

\* the id Command::spawn gives the next child; 0 when the model's bound is used up
NextWorker ==
    IF \E w \in WorkerIds : workers[w] = "unborn"
    THEN CHOOSE w \in WorkerIds :
            /\ workers[w] = "unborn"
            /\ \A v \in WorkerIds : workers[v] = "unborn" => w <= v
    ELSE 0

(* ------------------------------ start ---------------------------------- *)
\* variant: the error is returned after the spawn, once the reader is installed
StartSpawnFails_AfterSpawn ==
    /\ NextWorker # 0
    /\ workers' = [workers EXCEPT ![NextWorker] = "alive"]
    /\ reader' = NextWorker
    /\ stdout' = <<>>
    /\ partial' = FALSE
    /\ last' = Outcome("start", "spawn_error")
    /\ UNCHANGED <<norm, builder, helper_path, launch, input_mode, process, stdin,
                   stdinPipe, pending, pc>>

\* cmd.spawn() failed: `?` returns before any field is assigned
StartSpawnFails ==
    /\ last' = Outcome("start", "spawn_error")
    /\ UNCHANGED <<norm, builder, helper_path, launch, input_mode, process, reader, stdin, workers, stdout, partial,
                   stdinPipe, pending, pc>>

\* variant: a session that has been stopped once cannot be started again
StartSpawns_OnlyOnce(w) ==
    /\ \A v \in WorkerIds : workers[v] # "reaped"
    /\ workers' = [workers EXCEPT ![w] = "alive"]
    /\ reader' = w
    /\ stdout' = <<>>
    /\ partial' = FALSE
    /\ IF input_mode = "Programmatic"
       THEN stdin' = w /\ stdinPipe' = <<>>
       ELSE UNCHANGED <<stdin, stdinPipe>>
    /\ process' = w
    /\ launch' = [launch EXCEPT ![w] = CommandFor(helper_path, input_mode)]
    /\ last' = Outcome("start", "ok")
    /\ UNCHANGED <<norm, builder, helper_path, input_mode, pending, pc>>

\* variant: the new reader is put around the lines the old one had buffered
StartSpawns_KeepsBuffer(w) ==
    /\ workers' = [workers EXCEPT ![w] = "alive"]
    /\ reader' = w
    /\ UNCHANGED <<stdout, partial>>
    /\ IF input_mode = "Programmatic"
       THEN stdin' = w /\ stdinPipe' = <<>>
       ELSE UNCHANGED <<stdin, stdinPipe>>
    /\ process' = w
    /\ launch' = [launch EXCEPT ![w] = CommandFor(helper_path, input_mode)]
    /\ last' = Outcome("start", "ok")
    /\ UNCHANGED <<norm, builder, helper_path, input_mode, pending, pc>>

\* cmd.spawn() succeeded.  child.stdout and (after .stdin(Stdio::piped()))
\* child.stdin are always Some, so neither "Failed to capture" return is taken.
\* Assigning reader/stdin drops the previous handles, which closes the session's
\* ends of the previous pipes; assigning process drops the previous Child, and
\* dropping a Child neither kills nor waits for the process.
StartSpawns(w) ==
    /\ workers' = [workers EXCEPT ![w] = "alive"]
    /\ reader' = w
    /\ stdout' = <<>>
    /\ partial' = FALSE
    /\ IF input_mode = "Programmatic"
       THEN stdin' = w /\ stdinPipe' = <<>>
       ELSE UNCHANGED <<stdin, stdinPipe>>
    /\ process' = w
    /\ launch' = [launch EXCEPT ![w] = CommandFor(helper_path, input_mode)]
    /\ last' = Outcome("start", "ok")
    /\ UNCHANGED <<norm, builder, helper_path, input_mode, pending, pc>>

start ==
    /\ Callable
    /\ \/ StartSpawnFails
       \/ /\ NextWorker # 0
          /\ StartSpawns(NextWorker)

(* --------------------------- poll_result ------------------------------- *)
\* variant: a line that fails to decode is left in the buffer
PollLine_KeepsBadLine ==
    LET d == Decode(Head(stdout))
    IN  /\ stdout' = IF d.ok THEN Tail(stdout) ELSE stdout
        /\ last' = IF d.ok
                   THEN [Outcome("poll_result", "result") EXCEPT !.val = d.val]
                   ELSE [Outcome("poll_result", "decode_error")
                            EXCEPT !.ctx = SerdeError(Head(stdout))]
        /\ pc' = "idle"
        /\ UNCHANGED partial

\* variant: a good line is returned without being taken out of the buffer
PollLine_KeepsGoodLine ==
    LET d == Decode(Head(stdout))
    IN  /\ stdout' = IF d.ok THEN stdout ELSE Tail(stdout)
        /\ last' = IF d.ok
                   THEN [Outcome("poll_result", "result") EXCEPT !.val = d.val]
                   ELSE [Outcome("poll_result", "decode_error")
                            EXCEPT !.ctx = SerdeError(Head(stdout))]
        /\ pc' = "idle"
        /\ UNCHANGED partial

\* read_line returned a complete line (or the unterminated rest before EOF)
PollLine ==
    LET d == Decode(Head(stdout))
    IN  /\ stdout' = Tail(stdout)
        /\ last' = IF d.ok
                   THEN [Outcome("poll_result", "result") EXCEPT !.val = d.val]
                   ELSE [Outcome("poll_result", "decode_error")
                            EXCEPT !.ctx = SerdeError(Head(stdout))]
        /\ pc' = "idle"
        /\ UNCHANGED partial

\* variant: end-of-stream reported as "no result yet"
PollEof_AsNone ==
    /\ last' = Outcome("poll_result", "none")
    /\ pc' = "idle"
    /\ UNCHANGED <<stdout, partial>>

\* read_line returned Ok(0): every write end of the pipe is closed
PollEof ==
    /\ last' = Outcome("poll_result", "channel_ended")
    /\ pc' = "idle"
    /\ UNCHANGED <<stdout, partial>>

\* no complete line and the worker still holds the write end
PollNoLine ==
    IF NonBlocking
    THEN \* ErrorKind::WouldBlock: the bytes already appended to `line` are dropped
         /\ last' = Outcome("poll_result", "none")
         /\ partial' = FALSE
         /\ pc' = "idle"
         /\ UNCHANGED stdout
    ELSE \* the read blocks inside read_line
         /\ last' = Outcome("poll_result", "blocked")
         /\ pc' = "poll_result"
         /\ UNCHANGED <<stdout, partial>>

\* variant: the end of the stream is reported as soon as the worker has
\* exited, before the lines still buffered are read
ReadLine_EofFirst ==
    IF workers[reader] # "alive" THEN PollEof
    ELSE IF stdout # <<>> THEN PollLine
    ELSE PollNoLine

ReadLine ==
    IF stdout # <<>> THEN PollLine
    ELSE IF workers[reader] # "alive" THEN PollEof
    ELSE PollNoLine

poll_result ==
    /\ Callable
    /\ IF reader = 0
       THEN /\ last' = Outcome("poll_result", "not_started")
            /\ UNCHANGED <<stdout, partial, pc>>
       ELSE ReadLine
    /\ UNCHANGED <<norm, builder, helper_path, launch, input_mode, process, reader, stdin, workers, stdinPipe, pending>>

\* the blocked read_line is woken by a complete line or by end-of-stream
PollWakes ==
    /\ pc = "poll_result"
    /\ stdout # <<>> \/ workers[reader] # "alive"
    /\ ReadLine
    /\ UNCHANGED <<norm, builder, helper_path, launch, input_mode, process, reader, stdin, workers, stdinPipe, pending>>

(* --------------------------- feed_audio_* ------------------------------ *)
\* variant: a single write() in place of write_all(): what does not fit is lost
WriteAll_SingleWrite(op, bytes) ==
    IF bytes = <<>>
    THEN /\ last' = Outcome(op, "ok")
         /\ pc' = "idle"
         /\ pending' = <<>>
         /\ UNCHANGED stdinPipe
    ELSE IF workers[stdin] # "alive"
    THEN /\ last' = Outcome(op, "pipe_write_error")
         /\ pc' = "idle"
         /\ pending' = <<>>
         /\ UNCHANGED stdinPipe
    ELSE LET k == Min(PipeCap - Len(stdinPipe), Len(bytes))
         IN  /\ stdinPipe' = stdinPipe \o SubSeq(bytes, 1, k)
             /\ pending' = <<>>
             /\ last' = Outcome(op, "ok")
             /\ pc' = "idle"

\* variant: every chunk is sent behind a one-byte length prefix
WriteAll_Framed(op, bytes) ==
    IF bytes = <<>>
    THEN /\ last' = Outcome(op, "ok")
         /\ pc' = "idle"
         /\ pending' = <<>>
         /\ UNCHANGED stdinPipe
    ELSE IF workers[stdin] # "alive"
    THEN /\ last' = Outcome(op, "pipe_write_error")
         /\ pc' = "idle"
         /\ pending' = <<>>
         /\ UNCHANGED stdinPipe
    ELSE LET framed == IF pc = "idle" THEN <<Len(bytes)>> \o bytes ELSE bytes
             k == Min(PipeCap - Len(stdinPipe), Len(framed))
         IN  /\ stdinPipe' = stdinPipe \o SubSeq(framed, 1, k)
             /\ pending' = SubSeq(framed, k + 1, Len(framed))
             /\ IF k = Len(framed)
                THEN last' = Outcome(op, "ok") /\ pc' = "idle"
                ELSE last' = Outcome(op, "blocked") /\ pc' = op

\* variant: a write to a worker that has exited is retried instead of failing
WriteAll_Retries(op, bytes) ==
    IF bytes = <<>>
    THEN /\ last' = Outcome(op, "ok")
         /\ pc' = "idle"
         /\ pending' = <<>>
         /\ UNCHANGED stdinPipe
    ELSE IF workers[stdin] # "alive"
    THEN /\ last' = Outcome(op, "blocked")
         /\ pc' = op
         /\ pending' = bytes
         /\ UNCHANGED stdinPipe
    ELSE LET k == Min(PipeCap - Len(stdinPipe), Len(bytes))
         IN  /\ stdinPipe' = stdinPipe \o SubSeq(bytes, 1, k)
             /\ pending' = SubSeq(bytes, k + 1, Len(bytes))
             /\ IF k = Len(bytes)
                THEN last' = Outcome(op, "ok") /\ pc' = "idle"
                ELSE last' = Outcome(op, "blocked") /\ pc' = op

\* stdin.write_all(bytes) then stdin.flush() (flush of ChildStdin does nothing)
WriteAll(op, bytes) ==
    IF bytes = <<>>
    THEN /\ last' = Outcome(op, "ok")
         /\ pc' = "idle"
         /\ pending' = <<>>
         /\ UNCHANGED stdinPipe
    ELSE IF workers[stdin] # "alive"
    THEN \* read end closed: EPIPE
         /\ last' = Outcome(op, "pipe_write_error")
         /\ pc' = "idle"
         /\ pending' = <<>>
         /\ UNCHANGED stdinPipe
    ELSE LET k == Min(PipeCap - Len(stdinPipe), Len(bytes))
         IN  /\ stdinPipe' = stdinPipe \o SubSeq(bytes, 1, k)
             /\ pending' = SubSeq(bytes, k + 1, Len(bytes))
             /\ IF k = Len(bytes)
                THEN last' = Outcome(op, "ok") /\ pc' = "idle"
                ELSE last' = Outcome(op, "blocked") /\ pc' = op

\* variant: the input-mode check is missing
FeedI16Body_NoModeCheck(op, samples, sample_rate, channels) ==
    IF stdin = 0
    THEN /\ last' = Outcome(op, "not_started")
         /\ UNCHANGED <<stdinPipe, pending, pc>>
    ELSE WriteAll(op, ToLeBytes(to_mono_i16(resample_i16(samples, sample_rate, channels),
                                            channels)))

\* variant: audio fed to a session without a stdin handle is discarded as a success
FeedI16Body_DropsWhenStopped(op, samples, sample_rate, channels) ==
    IF input_mode # "Programmatic"
    THEN /\ last' = Outcome(op, "mode_violation")
         /\ UNCHANGED <<stdinPipe, pending, pc>>
    ELSE IF stdin = 0
    THEN /\ last' = Outcome(op, "ok")
         /\ UNCHANGED <<stdinPipe, pending, pc>>
    ELSE WriteAll(op, ToLeBytes(to_mono_i16(resample_i16(samples, sample_rate, channels),
                                            channels)))

FeedI16Body(op, samples, sample_rate, channels) ==
    IF input_mode # "Programmatic"
    THEN /\ last' = Outcome(op, "mode_violation")
         /\ UNCHANGED <<stdinPipe, pending, pc>>
    ELSE IF stdin = 0
    THEN /\ last' = Outcome(op, "not_started")
         /\ UNCHANGED <<stdinPipe, pending, pc>>
    ELSE WriteAll(op, ToLeBytes(to_mono_i16(resample_i16(samples, sample_rate, channels),
                                            channels)))

feed_audio_i16 ==
    /\ Callable
    /\ \E samples \in I16Chunks, sample_rate \in Rates, channels \in Channels :
          FeedI16Body("feed_audio_i16", samples, sample_rate, channels)
    /\ UNCHANGED <<norm, builder, helper_path, launch, input_mode, process, reader, stdin, workers, stdout, partial>>

\* variant: the f32 entry point looks at the stdin handle before the mode
FeedF32Body_ChecksStdinFirst(samples, sample_rate, channels) ==
    IF stdin = 0
    THEN /\ last' = Outcome("feed_audio_f32", "not_started")
         /\ UNCHANGED <<stdinPipe, pending, pc>>
    ELSE FeedI16Body("feed_audio_f32", f32_to_i16(samples), sample_rate, channels)

FeedF32Body(samples, sample_rate, channels) ==
    IF input_mode # "Programmatic"
    THEN /\ last' = Outcome("feed_audio_f32", "mode_violation")
         /\ UNCHANGED <<stdinPipe, pending, pc>>
    ELSE FeedI16Body("feed_audio_f32", f32_to_i16(samples), sample_rate, channels)

feed_audio_f32 ==
    /\ Callable
    /\ \E samples \in F32Chunks, sample_rate \in Rates, channels \in Channels :
          FeedF32Body(samples, sample_rate, channels)
    /\ UNCHANGED <<norm, builder, helper_path, launch, input_mode, process, reader, stdin, workers, stdout, partial>>

\* the blocked write_all is woken by room in the pipe or by the reader closing
FeedWakes ==
    /\ pc \in {"feed_audio_i16", "feed_audio_f32"}
    /\ Len(stdinPipe) < PipeCap \/ workers[stdin] # "alive"
    /\ WriteAll(pc, pending)
    /\ UNCHANGED <<norm, builder, helper_path, launch, input_mode, process, reader, stdin, workers, stdout, partial>>

(* --------------------------- stop and drop ----------------------------- *)
\* variant: kill without wait leaves the child unreaped
KillAndWait_NoWait(w) == [workers EXCEPT ![w] = "zombie"]

\* process.kill() sends SIGKILL, process.wait() reaps; both results are ignored
KillAndWait(w) == [workers EXCEPT ![w] = "reaped"]

\* variant: stop forgets to release the stdin handle
StopBody_KeepsStdin(op) ==
    /\ reader' = 0
    /\ stdout' = <<>>
    /\ partial' = FALSE
    /\ workers' = IF process # 0 THEN KillAndWait(process) ELSE workers
    /\ process' = 0
    /\ \E failed \in IF process # 0 THEN BOOLEAN ELSE {FALSE} :
          last' = [Outcome(op, "ok") EXCEPT !.ignored = failed]
    /\ UNCHANGED <<norm, builder, helper_path, launch, input_mode, pending, stdin, stdinPipe>>

\* variant: stop forgets to release the stdout reader
StopBody_KeepsReader(op) ==
    /\ stdin' = 0
    /\ stdinPipe' = <<>>
    /\ workers' = IF process # 0 THEN KillAndWait(process) ELSE workers
    /\ process' = 0
    /\ last' = Outcome(op, "ok")
    /\ UNCHANGED <<norm, builder, helper_path, launch, input_mode, pending, reader, stdout, partial>>

\* variant: stop on a session that is not running is an error
StopBody_ErrWhenStopped(op) ==
    /\ stdin' = 0
    /\ stdinPipe' = <<>>
    /\ reader' = 0
    /\ stdout' = <<>>
    /\ partial' = FALSE
    /\ workers' = IF process # 0 THEN KillAndWait(process) ELSE workers
    /\ process' = 0
    /\ last' = IF process # 0 THEN Outcome(op, "ok") ELSE Outcome(op, "not_running")
    /\ UNCHANGED <<norm, builder, helper_path, launch, input_mode, pending>>

\* kill() or wait() may return Err (wait: ECHILD when the child was reaped
\* behind the Child's back, e.g. SIGCHLD ignored); the process is gone and
\* reaped either way, and stop() returns Ok(()) whatever they returned
StopBody(op) ==
    /\ stdin' = 0
    /\ stdinPipe' = <<>>
    /\ reader' = 0
    /\ stdout' = <<>>
    /\ partial' = FALSE
    /\ workers' = IF process # 0 THEN KillAndWait(process) ELSE workers
    /\ process' = 0
    /\ \E failed \in IF process # 0 THEN BOOLEAN ELSE {FALSE} :
          last' = [Outcome(op, "ok") EXCEPT !.ignored = failed]
    /\ UNCHANGED <<norm, builder, helper_path, launch, input_mode, pending>>

stop ==
    /\ Callable
    /\ StopBody("stop")
    /\ UNCHANGED pc

\* impl Drop: let _ = self.stop(); the session is gone afterwards
Drop ==
    /\ Callable
    /\ StopBody("drop")
    /\ pc' = "dropped"

is_running == process # 0

(* ------------------------------ worker --------------------------------- *)
WorkerStep == Outcome("worker", "ok")

\* the worker writes one whole line to its stdout
WorkerEmitsLine ==
    /\ reader # 0 /\ workers[reader] = "alive"
    /\ ~partial
    /\ Len(stdout) < MaxOut
    /\ \E l \in Lines : stdout' = Append(stdout, l)
    /\ last' = WorkerStep
    /\ UNCHANGED <<norm, builder, helper_path, launch, input_mode, process, reader, stdin, workers, partial,
                   stdinPipe, pending, pc>>

\* the worker writes the first part of a line
WorkerStartsLine ==
    /\ reader # 0 /\ workers[reader] = "alive"
    /\ ~partial
    /\ Len(stdout) < MaxOut
    /\ partial' = TRUE
    /\ last' = WorkerStep
    /\ UNCHANGED <<norm, builder, helper_path, launch, input_mode, process, reader, stdin, workers, stdout,
                   stdinPipe, pending, pc>>

\* the worker writes the rest of the line, newline included
WorkerEndsLine ==
    /\ reader # 0 /\ workers[reader] = "alive"
    /\ partial
    /\ \E l \in Lines : stdout' = Append(stdout, l)
    /\ partial' = FALSE
    /\ last' = WorkerStep
    /\ UNCHANGED <<norm, builder, helper_path, launch, input_mode, process, reader, stdin, workers,
                   stdinPipe, pending, pc>>

\* the worker reads some of the bytes waiting in its stdin pipe
WorkerReads ==
    /\ stdin # 0 /\ workers[stdin] = "alive"
    /\ stdinPipe # <<>>
    /\ \E k \in 1..Len(stdinPipe) :
          stdinPipe' = SubSeq(stdinPipe, k + 1, Len(stdinPipe))
    /\ last' = WorkerStep
    /\ UNCHANGED <<norm, builder, helper_path, launch, input_mode, process, reader, stdin, workers, stdout, partial,
                   pending, pc>>

\* a worker exits by itself (crash, end of input, lost its pipes): its pipe
\* ends close; unread complete lines stay readable, an unterminated rest is
\* what read_line returns last before end-of-stream
WorkerExits(w) ==
    /\ workers[w] = "alive"
    /\ workers' = [workers EXCEPT ![w] = "zombie"]
    /\ IF w = reader /\ partial
       THEN stdout' = Append(stdout, Trunc) /\ partial' = FALSE
       ELSE UNCHANGED <<stdout, partial>>
    /\ stdinPipe' = IF w = stdin THEN <<>> ELSE stdinPipe
    /\ last' = WorkerStep
    /\ UNCHANGED <<norm, builder, helper_path, launch, input_mode, process, reader, stdin, pending, pc>>

Next ==
    \/ start
    \/ poll_result
    \/ PollWakes
    \/ feed_audio_i16
    \/ feed_audio_f32
    \/ FeedWakes
    \/ stop
    \/ Drop
    \/ WorkerEmitsLine
    \/ WorkerStartsLine
    \/ WorkerEndsLine
    \/ WorkerReads
    \/ \E w \in WorkerIds : WorkerExits(w)

Spec == Init /\ [][Next]_vars

\* the session's whole life, from StreamingTranscriber::builder() on
NextBuild ==
    \/ with_microphone
    \/ with_programmatic_input
    \/ with_helper_path
    \/ build
    \/ Next

SpecBuild == InitBuild /\ [][NextBuild]_vars

(* ------------------ a worker that works on one thread ------------------ *)
\* The worker is an opaque process; one kind the session has to live with
\* reads audio and writes results from a single thread.  Its write() to a
\* stdout pipe without room blocks inside the kernel, and while it is blocked
\* there it does not read its stdin.

\* the worker starts writing a line into a stdout pipe without room for it:
\* part of the line is written and the write blocks
WorkerWriteBlocks ==
    /\ reader # 0 /\ workers[reader] = "alive"
    /\ ~partial
    /\ Len(stdout) >= MaxOut
    /\ partial' = TRUE
    /\ last' = WorkerStep
    /\ UNCHANGED <<norm, builder, helper_path, launch, input_mode, process, reader, stdin, workers,
                   stdout, stdinPipe, pending, pc>>

\* the caller has read a line: the blocked write goes on and completes
WorkerWriteResumes ==
    /\ reader # 0 /\ workers[reader] = "alive"
    /\ partial
    /\ Len(stdout) < MaxOut
    /\ \E l \in Lines : stdout' = Append(stdout, l)
    /\ partial' = FALSE
    /\ last' = WorkerStep
    /\ UNCHANGED <<norm, builder, helper_path, launch, input_mode, process, reader, stdin, workers,
                   stdinPipe, pending, pc>>

\* the worker reads its stdin only when it is not inside a write
WorkerReadsBetweenWrites ==
    /\ ~(stdin = reader /\ partial)
    /\ WorkerReads

NextBackpressure ==
    \/ start
    \/ poll_result
    \/ PollWakes
    \/ feed_audio_i16
    \/ feed_audio_f32
    \/ FeedWakes
    \/ stop
    \/ Drop
    \/ WorkerEmitsLine
    \/ WorkerWriteBlocks
    \/ WorkerWriteResumes
    \/ WorkerReadsBetweenWrites
    \/ \E w \in WorkerIds : WorkerExits(w)

SpecBackpressure == Init /\ [][NextBackpressure]_vars

(* ------------------- the normalisation on its own --------------------- *)
\* feed_audio_f32 / feed_audio_i16 up to the bytes handed to write_all, for
\* arguments of the whole range a caller may pass (u32 rate, u16 channels)
MaxSamples == 3
PcmVals == {-32768, -3, -1, 0, 2, 32767}
F32Halves == {-4, -2, -1, 0, 1, 2, 3}       \* -2.0 .. 1.5 in halves
NormRates == {0, 8000, 16000, 32000, 48000}
NormChannels == {0, 1, 2, 3}

\* variant: the channels are mixed down before the stream is resampled
NormalizeI16_MonoFirst(samples, sample_rate, channels) ==
    LET mono == to_mono_i16(samples, channels)
        resampled == resample_i16(mono, sample_rate, channels)
    IN  [resampled |-> resampled, mono |-> mono, bytes |-> ToLeBytes(resampled)]

\* let resampled = resample_i16(samples, ..); let mono = to_mono_i16(&resampled, ..);
\* bytes = mono's samples as little-endian pairs
NormalizeI16(samples, sample_rate, channels) ==
    LET resampled == resample_i16(samples, sample_rate, channels)
        mono == to_mono_i16(resampled, channels)
    IN  [resampled |-> resampled, mono |-> mono, bytes |-> ToLeBytes(mono)]

InitNormalize ==
    /\ builder = NoBuilder
    /\ \E r \in NormRates, c \in NormChannels :
          \/ \E x \in SeqsUpTo(F32Halves, MaxSamples) :
                norm = [NoNorm EXCEPT !.stage = "feed_audio_f32", !.f32 = x,
                                      !.sample_rate = r, !.channels = c]
          \/ \E x \in SeqsUpTo(PcmVals, MaxSamples) :
                norm = [NoNorm EXCEPT !.stage = "feed_audio_i16", !.samples = x,
                                      !.sample_rate = r, !.channels = c]
    /\ helper_path = Local
    /\ launch = [w \in WorkerIds |-> NoCommand]
    /\ input_mode = "Programmatic"
    /\ process = 0
    /\ reader = 0
    /\ stdin = 0
    /\ workers = [w \in WorkerIds |-> "unborn"]
    /\ stdout = <<>>
    /\ partial = FALSE
    /\ stdinPipe = <<>>
    /\ pending = <<>>
    /\ pc = "idle"
    /\ last = Outcome("build", "ok")

NormSessionUnchanged ==
    UNCHANGED <<builder, helper_path, launch, input_mode, process, reader, stdin, workers,
                stdout, partial, stdinPipe, pending, pc, last>>

\* feed_audio_f32: let i16_samples = Self::f32_to_i16(samples)
QuantizeF32 ==
    /\ norm.stage = "feed_audio_f32"
    /\ norm' = [norm EXCEPT !.samples = f32_to_i16(norm.f32), !.stage = "feed_audio_i16"]
    /\ NormSessionUnchanged

\* feed_audio_i16: resample, mix down, encode
NormalizeReturns ==
    /\ norm.stage = "feed_audio_i16"
    /\ ~ResampleOverflows(norm.samples, norm.sample_rate)
    /\ LET r == NormalizeI16(norm.samples, norm.sample_rate, norm.channels)
       IN  norm' = [norm EXCEPT !.resampled = r.resampled, !.mono = r.mono,
                                !.bytes = r.bytes, !.stage = "normalized"]
    /\ NormSessionUnchanged

\* resample_i16 panics: the call never returns a sequence
NormalizePanics ==
    /\ norm.stage = "feed_audio_i16"
    /\ ResampleOverflows(norm.samples, norm.sample_rate)
    /\ norm' = [norm EXCEPT !.stage = "panicked"]
    /\ NormSessionUnchanged

NextNormalize ==
    \/ QuantizeF32
    \/ NormalizeReturns
    \/ NormalizePanics

SpecNormalize == InitNormalize /\ [][NextNormalize]_vars

TypeOK ==
    /\ input_mode \in AudioInputMode \cup {""}
    /\ helper_path \in Paths \cup {""}
    /\ process \in 0..MaxWorkers /\ reader \in 0..MaxWorkers /\ stdin \in 0..MaxWorkers
    /\ workers \in [WorkerIds -> {"unborn", "alive", "zombie", "reaped"}]
    /\ Len(stdout) <= MaxOut + 1
    /\ partial \in BOOLEAN
    /\ Len(stdinPipe) <= PipeCap
    /\ pc \in {"builder", "no_session", "idle", "dropped",
              "poll_result", "feed_audio_i16", "feed_audio_f32"}

(* ======================= properties of the session ===================== *)
Feeds == {"feed_audio_i16", "feed_audio_f32"}
Calls == Feeds \cup {"poll_result"}

\* a new call is being made in this step (not the wake-up of a blocked one)
Calling(ops) == pc = "idle" /\ last'.op \in ops

PipesUntouched == UNCHANGED <<stdout, partial, stdinPipe, pending>>

\* C1: poll_result() never blocks: called while the session is Running, the
\* worker is alive and no complete line is buffered, it returns Ok(None)
\* at once instead of waiting for the worker.
C1_PollNeverBlocks ==
    [][(Calling({"poll_result"}) /\ is_running /\ workers[process] = "alive"
            /\ stdout = <<>>)
        => (last'.res = "none" /\ pc' = "idle")]_vars

\* C2: a session owns at most one live worker: every worker that is alive is
\* the one the session's process handle refers to, after any start/stop/feed/poll.
C2_AtMostOneLiveWorker ==
    \A w \in WorkerIds : workers[w] = "alive" => process = w

\* C3 (as stated): right after stop() every poll_result() and feed_audio_*
\* call returns the "not started" error and touches no pipe.
C3_AfterStopNotStarted ==
    [][(last.op = "stop" /\ Calling(Calls))
        => (last'.res = "not_started" /\ PipesUntouched)]_vars

\* C3 (amended): stop() leaves is_running() false with no reader and no stdin
\* handle; while the session stays that way poll_result() returns "not
\* started", feed_audio_* returns "not started" in Programmatic mode and the
\* mode-violation error in Microphone mode, and no pipe is touched.
C3_AfterStopRejected ==
    [][/\ last'.op = "stop" => (~is_running' /\ reader' = 0 /\ stdin' = 0)
       /\ (~is_running /\ Calling(Calls))
            => /\ last'.res = IF last'.op \in Feeds /\ input_mode = "Microphone"
                              THEN "mode_violation" ELSE "not_started"
               /\ PipesUntouched
               /\ ~is_running']_vars

\* a poll rejected on a session whose worker was stopped and reaped
C3_Witness ==
    /\ last.op = "poll_result" /\ last.res = "not_started"
    /\ \E w \in WorkerIds : workers[w] = "reaped"

\* C4: in Microphone mode feed_audio_f32 and feed_audio_i16 fail with the
\* mode-violation error in every session state and write no byte to a pipe.
C4_MicrophoneFeedRejected ==
    [][(input_mode = "Microphone" /\ last'.op \in Feeds)
        => (last'.res = "mode_violation" /\ PipesUntouched /\ pc' = "idle")]_vars

\* a feed rejected by a Running Microphone session
C4_Witness ==
    /\ input_mode = "Microphone" /\ is_running
    /\ last.op \in Feeds /\ last.res = "mode_violation"

\* C5: feed_audio_* delivers audio only in Programmatic mode on a Running
\* session; in every other combination the call returns an error and writes
\* and queues nothing.
C5_FeedOnlyProgrammaticRunning ==
    [][/\ (Calling(Feeds) /\ ~(input_mode = "Programmatic" /\ is_running))
            => /\ last'.res \in {"mode_violation", "not_started"}
               /\ PipesUntouched
               /\ pc' = "idle"
       /\ (stdinPipe' # stdinPipe /\ last'.op \in Feeds)
            => (input_mode = "Programmatic" /\ is_running)]_vars

\* a feed rejected by a Programmatic session that is not running
C5_Witness ==
    /\ input_mode = "Programmatic" /\ ~is_running
    /\ last.op \in Feeds /\ last.res = "not_started"

\* C6: stop() is idempotent: on a session that is not running (never started
\* or already stopped) it returns success and changes nothing.
C6_StopIdempotent ==
    [][(last'.op = "stop" /\ ~is_running)
        => /\ last'.res = "ok"
           /\ UNCHANGED <<norm, builder, helper_path, launch, input_mode, process, reader, stdin, workers, stdout,
                          partial, stdinPipe, pending, pc>>]_vars

\* stop() has returned on a session that was never started
C6_Witness ==
    /\ last.op = "stop" /\ last.res = "ok" /\ ~is_running
    /\ \A w \in WorkerIds : workers[w] = "unborn"

\* C7: when stop() returns the session's worker has been killed and reaped and
\* the stdin and stdout handles are released, whatever the worker was doing.
C7_StopReapsAndReleases ==
    [][(last'.op = "stop" /\ is_running)
        => /\ workers'[process] = "reaped"
           /\ process' = 0 /\ reader' = 0 /\ stdin' = 0
           /\ stdout' = <<>> /\ stdinPipe' = <<>>]_vars

\* stop() has returned and a worker has been reaped
C7_Witness ==
    /\ last.op = "stop" /\ ~is_running
    /\ \E w \in WorkerIds : workers[w] = "reaped"

\* C8: after the session is dropped no worker it spawned is still alive.
C8_NoWorkerOutlivesSession ==
    pc = "dropped" => \A w \in WorkerIds : workers[w] # "alive"

\* the worker read from has exited and every line it emitted has been consumed
ChannelEnded == reader # 0 /\ workers[reader] # "alive" /\ stdout = <<>>

\* C9: once the worker has exited and its lines are consumed, poll_result()
\* returns the channel-ended error, and the channel stays ended (so every later
\* poll_result() returns it too) until the session is started, stopped or dropped.
C9_ChannelEndedPersists ==
    [][/\ (ChannelEnded /\ last'.op = "poll_result") => last'.res = "channel_ended"
       /\ (ChannelEnded /\ last'.op \notin {"start", "stop", "drop"}) => ChannelEnded']_vars

\* poll_result() has reported channel-ended
C9_Witness ==
    /\ last.op = "poll_result" /\ last.res = "channel_ended" /\ ChannelEnded

\* C10: after poll_result() has reported channel-ended the session is no
\* longer Running: is_running() is false without a stop().
C10_EndedMeansNotRunning ==
    (last.op = "poll_result" /\ last.res = "channel_ended") => ~is_running

\* this step is a poll_result() that reads the line at the head of the buffer
PollReads == last'.op = "poll_result" /\ reader # 0 /\ stdout # <<>>

\* C11: a line that is not a well-formed record makes poll_result() return
\* the decode error (not channel-ended, not "no result yet"); exactly that
\* line is consumed, the reader is kept, and the next poll_result() works on
\* the line that follows it.
C11_MalformedLineDecodeError ==
    [][(PollReads /\ ~Decode(Head(stdout)).ok)
        => /\ last'.res = "decode_error"
           /\ stdout' = Tail(stdout)
           /\ reader' = reader /\ process' = process
           /\ pc' = "idle"]_vars

\* poll_result() has returned the decode error and the session still reads
C11_Witness ==
    last.op = "poll_result" /\ last.res = "decode_error" /\ reader # 0

\* C12: the decode error returned for a malformed line carries the text of
\* the offending line.
C12_DecodeErrorCarriesLine ==
    [][(PollReads /\ ~Decode(Head(stdout)).ok)
        => (last'.res = "decode_error" /\ last'.ctx = Head(stdout).text)]_vars

CanStart == ENABLED StartSpawns(NextWorker)

\* C14: a stopped session can be started again, also after channel-ended and
\* after any number of cycles: whenever the session is idle and not running a
\* spawning start() is possible, and a start() that returns Ok leaves the
\* session Running on a fresh, live worker with an empty result buffer, so
\* that poll_result()/feed_audio_* operate on that worker.
C14_RestartAfterStop ==
    /\ []((pc = "idle" /\ ~is_running /\ NextWorker # 0) => CanStart)
    /\ [][(last'.op = "start" /\ last'.res = "ok")
            => /\ is_running'
               /\ workers[process'] = "unborn" /\ workers'[process'] = "alive"
               /\ reader' = process'
               /\ stdout' = <<>> /\ partial' = FALSE
               /\ input_mode = "Programmatic" => (stdin' = process' /\ stdinPipe' = <<>>)]_vars

\* start() has succeeded on a session whose earlier worker was stopped and reaped
C14_Witness ==
    /\ last.op = "start" /\ last.res = "ok" /\ is_running
    /\ workers[process] = "alive"
    /\ \E w \in WorkerIds : workers[w] = "reaped"

\* C15: stop() does not report success when kill or wait failed: it returns
\* the shutdown error.
C15_StopReportsShutdownError ==
    (last.op = "stop" /\ last.ignored) => last.res = "shutdown_error"

(* ======================= properties of the builder ===================== *)
SessionEmpty == process = 0 /\ reader = 0 /\ stdin = 0

\* C16: build() spawns no process and is all-or-nothing: Ok gives a session
\* that is not running and holds no process, reader or stdin handle; an
\* explicit path that does not exist, or no existing default location, gives
\* an error and no session.
C16_BuildAllOrNothing ==
    [][last'.op = "build"
        => /\ workers' = workers /\ launch' = launch
           /\ SessionEmpty'
           /\ LET env == last'.env
                  missing == IF builder.helper_path # ""
                             THEN builder.helper_path \notin env.fs
                             ELSE /\ Local \notin env.fs
                                  /\ ~(env.home /\ User \in env.fs)
                                  /\ System \notin env.fs
              IN  IF missing
                  THEN /\ last'.res = "config_error"
                       /\ pc' = "no_session" /\ helper_path' = "" /\ input_mode' = ""
                  ELSE /\ last'.res = "ok"
                       /\ pc' = "idle" /\ helper_path' # "" /\ ~is_running']_vars

\* build() has failed on an explicit path that does not exist
C16_Witness ==
    /\ last.op = "build" /\ last.res = "config_error" /\ pc = "no_session"
    /\ Custom \notin last.env.fs /\ Local \in last.env.fs

\* C17: without an explicit path build() takes the first existing of the
\* local, per-user and system-wide locations and fails when none exists; with
\* an explicit path it takes exactly that path and fails when it does not
\* exist, never falling back to the default locations.
C17_HelperResolution ==
    [][last'.op = "build"
        => LET env == last'.env
               explicit == builder.helper_path
               expected ==
                   IF explicit # ""
                   THEN IF explicit \in env.fs THEN explicit ELSE ""
                   ELSE IF Local \in env.fs THEN Local
                   ELSE IF env.home /\ User \in env.fs THEN User
                   ELSE IF System \in env.fs THEN System
                   ELSE ""
           IN  /\ helper_path' = expected
               /\ (last'.res = "ok") = (expected # "")]_vars

\* build() has chosen the per-user location although the system one exists too
C17_Witness ==
    /\ last.op = "build" /\ last.res = "ok" /\ helper_path = User
    /\ System \in last.env.fs /\ Local \notin last.env.fs

\* C18: the built session's input mode is the one the last with_microphone()
\* / with_programmatic_input() call set on the builder (Microphone when none
\* was made), and no session operation changes the session's input mode or
\* helper path.
C18_ModeFixedAtBuild ==
    /\ InitBuild => builder.input_mode = "Microphone"
    /\ [][/\ last'.op = "with_microphone" => builder'.input_mode = "Microphone"
          /\ last'.op = "with_programmatic_input" => builder'.input_mode = "Programmatic"
          /\ last'.op \in {"with_helper_path", "builder"}
                => builder'.input_mode = builder.input_mode
          /\ (last'.op = "build" /\ last'.res = "ok")
                => input_mode' = builder.input_mode
          /\ pc # "builder" => UNCHANGED <<input_mode, helper_path>>]_vars

\* a Programmatic session built after the builder's mode was changed, in use
C18_Witness ==
    /\ input_mode = "Programmatic" /\ is_running
    /\ last.op \in Feeds /\ last.res = "ok"

(* ================== properties of the worker's stdin =================== *)
\* C19: start() passes --stdin and a piped standard input exactly in
\* Programmatic mode; a Microphone worker gets no argument and no pipe; so the
\* session holds a stdin handle only in Programmatic mode while Running.
C19_StdinOnlyProgrammatic ==
    /\ \A w \in WorkerIds :
          workers[w] # "unborn"
            => /\ launch[w].args = IF input_mode = "Programmatic"
                                   THEN <<"--stdin">> ELSE <<>>
               /\ launch[w].stdin = IF input_mode = "Programmatic"
                                    THEN "piped" ELSE "inherit"
    /\ stdin # 0 => (input_mode = "Programmatic" /\ is_running /\ stdin = process)

\* a Running Microphone session: plain worker, no stdin handle
C19_Witness ==
    /\ input_mode = "Microphone" /\ is_running /\ stdin = 0
    /\ launch[process].args = <<>> /\ launch[process].stdin = "inherit"

\* the byte strings a feed_audio_* call can have to write
FedBytes ==
    {ToLeBytes(to_mono_i16(resample_i16(c, r, ch), ch)) :
        c \in I16Chunks \cup {f32_to_i16(x) : x \in F32Chunks},
        r \in Rates, ch \in Channels}

\* C20: feed_audio_* returns Ok only when every byte of the chunk is in the
\* worker's stdin pipe: the bytes of a call are either in the pipe or still
\* held by the call, which has not returned; a resumed write loses none; and
\* poll_result() runs only when no byte of an earlier feed is still unwritten.
C20_FeedWritesAllBeforeReturn ==
    [][/\ (last'.op \in Feeds /\ last'.res = "ok") => (pending' = <<>> /\ pc' = "idle")
       /\ (Calling(Feeds) /\ last'.res \in {"ok", "blocked"})
            => \E bytes \in FedBytes : stdinPipe' \o pending' = stdinPipe \o bytes
       /\ (pc \in Feeds /\ last'.op \in Feeds /\ last'.res \in {"ok", "blocked"})
            => stdinPipe' \o pending' = stdinPipe \o pending
       /\ last'.res = "blocked" /\ last'.op \in Feeds => (pending' # <<>> /\ pc' \in Feeds)
       /\ last'.op = "poll_result" => (pending = <<>> /\ UNCHANGED <<stdinPipe, pending>>)]_vars

\* a feed has returned Ok with all its bytes written, filling the pipe
C20_Witness ==
    /\ last.op \in Feeds /\ last.res = "ok" /\ pc = "idle"
    /\ Len(stdinPipe) = PipeCap /\ pending = <<>>

(* ----------------------- wire format on stdin -------------------------- *)
\* the bytes feed_audio_i16 / feed_audio_f32 have to write for one chunk
WireBytes(samples, sample_rate, channels) ==
    ToLeBytes(to_mono_i16(resample_i16(samples, sample_rate, channels), channels))
I16Wire == {WireBytes(c, r, ch) : c \in I16Chunks, r \in Rates, ch \in Channels}
F32Wire == {WireBytes(f32_to_i16(c), r, ch) : c \in F32Chunks, r \in Rates, ch \in Channels}

IsSuffix(s, t) == \E k \in 0..Len(t) : s = SubSeq(t, k + 1, Len(t))

\* C21 (as stated): the worker receives bytes of successfully fed chunks only:
\* a feed that returns the pipe-write error has put none of its chunk's bytes
\* into the pipe (it fails at once, or while still holding a whole chunk).
C21_OnlySuccessfulChunksSent ==
    [][(last'.op \in Feeds /\ last'.res = "pipe_write_error")
        => (pc = "idle" \/ pending \in FedBytes)]_vars

\* C21 (amended): the stdin pipe of one worker run is a FIFO of the chunks'
\* encodings: a feed appends, after what is already in the pipe, the
\* little-endian bytes of its chunk's normalized samples and nothing else
\* (what does not fit stays, in order, with the blocked call, which appends it
\* when woken); the worker takes bytes from the front only; no other step of a
\* run changes the pipe or the bytes a blocked call still holds.
C21_WireFormat ==
    [][/\ (Calling({"feed_audio_i16"}) /\ last'.res \in {"ok", "blocked"})
            => \E bytes \in I16Wire : stdinPipe' \o pending' = stdinPipe \o bytes
       /\ (Calling({"feed_audio_f32"}) /\ last'.res \in {"ok", "blocked"})
            => \E bytes \in F32Wire : stdinPipe' \o pending' = stdinPipe \o bytes
       /\ (pc \in Feeds /\ last'.op \in Feeds)
            => \/ /\ last'.res \in {"ok", "blocked"}
                  /\ stdinPipe' \o pending' = stdinPipe \o pending
               \/ /\ last'.res = "pipe_write_error"
                  /\ workers[stdin] # "alive" /\ UNCHANGED stdinPipe
       /\ last'.op = "worker"
            => /\ IsSuffix(stdinPipe', stdinPipe)
               /\ pending' = pending
               /\ (stdinPipe' # stdinPipe /\ workers' # workers) => stdinPipe' = <<>>
       /\ last'.op \notin Feeds \cup {"worker", "start", "stop", "drop"}
            => UNCHANGED <<stdinPipe, pending>>]_vars

\* the worker has taken bytes from the pipe while a blocked feed still holds
\* the rest of its chunk
C21_Witness ==
    /\ pc \in Feeds /\ pending # <<>>
    /\ last.op = "worker" /\ workers[stdin] = "alive"
    /\ Len(stdinPipe) < PipeCap

\* C22: a feed_audio_* write to a worker that has exited returns the
\* pipe-write error at once: the call does not stay in the write, keeps no
\* bytes to write later, writes nothing and leaves process, handles and every
\* worker as they were; and a worker comes to life in a start() step only.
C22_NoRespawnNoRetry ==
    [][/\ (last'.op \in Feeds /\ input_mode = "Programmatic" /\ stdin # 0
             /\ workers[stdin] # "alive")
            => /\ last'.res \in {"pipe_write_error", "ok"}
               /\ pc' = "idle" /\ pending' = <<>>
               /\ UNCHANGED <<stdinPipe, workers, process, reader, stdin>>
       /\ last'.res = "pipe_write_error"
            => /\ last'.op \in Feeds /\ workers[stdin] # "alive"
               /\ UNCHANGED <<workers, process, reader, stdin>>
       /\ (\E w \in WorkerIds : workers'[w] = "alive" /\ workers[w] # "alive")
            => last'.op = "start"]_vars

\* a feed has failed with the pipe-write error on a session whose worker has
\* exited, and the session still refers to that worker
C22_Witness ==
    /\ last.op \in Feeds /\ last.res = "pipe_write_error"
    /\ is_running /\ stdin = process /\ workers[process] = "zombie"

\* C28: a start() that returns an error has installed nothing and spawned
\* nothing: process, reader, stdin, the pipes and every worker are as before
\* the call, so a session that was not running is still not running and
\* holds no reader and no stdin handle, and no worker is alive that the
\* session does not own because of this call.
C28_FailedStartLeavesNothing ==
    [][(last'.op = "start" /\ last'.res # "ok")
        => /\ UNCHANGED <<process, reader, stdin, workers, launch, stdout, partial,
                          stdinPipe, pending>>
           /\ ~is_running => (~is_running' /\ reader' = 0 /\ stdin' = 0)
           /\ pc' = "idle"]_vars

\* start() has failed on a session that is not running
C28_Witness ==
    /\ last.op = "start" /\ last.res = "spawn_error"
    /\ ~is_running /\ reader = 0 /\ stdin = 0
    /\ \A w \in WorkerIds : workers[w] # "alive"

\* C29: the session's handles agree: the reader is present exactly when the
\* process handle is, a stdin handle only when the process handle is, and
\* the handles present all refer to the same child.
C29_HandlesConsistent ==
    /\ (reader # 0) <=> is_running
    /\ stdin # 0 => is_running
    /\ reader \in {0, process} /\ stdin \in {0, process}

\* a Programmatic session that was started, stopped and started again holds
\* all three handles of its second child
C29_Witness ==
    /\ is_running /\ reader = process /\ stdin = process
    /\ \E w \in WorkerIds : workers[w] = "reaped"

\* what a feed of these bytes through feed_audio_i16 does in the current state
FeedOutcome(bytes) ==
    IF input_mode # "Programmatic"
    THEN last'.res = "mode_violation" /\ pc' = "idle" /\ PipesUntouched
    ELSE IF stdin = 0
    THEN last'.res = "not_started" /\ pc' = "idle" /\ PipesUntouched
    ELSE IF bytes = <<>>
    THEN last'.res = "ok" /\ pc' = "idle" /\ PipesUntouched
    ELSE IF workers[stdin] # "alive"
    THEN last'.res = "pipe_write_error" /\ pc' = "idle" /\ PipesUntouched
    ELSE /\ stdinPipe' \o pending' = stdinPipe \o bytes
         /\ Len(stdinPipe') = Min(PipeCap, Len(stdinPipe) + Len(bytes))
         /\ IF pending' = <<>>
            THEN last'.res = "ok" /\ pc' = "idle"
            ELSE last'.res = "blocked" /\ pc' = last'.op
         /\ UNCHANGED <<stdout, partial>>

\* C32: in every session state and mode a feed_audio_f32 call does what a
\* feed_audio_i16 call of the quantised samples does: the same kind of outcome
\* (mode violation, not started, pipe-write error, Ok) and the same bytes put
\* on the pipe, those of the normalised quantised chunk.
C32_F32FeedsQuantizedI16 ==
    [][/\ Calling({"feed_audio_i16"})
            => \E c \in I16Chunks, r \in Rates, ch \in Channels :
                  FeedOutcome(WireBytes(c, r, ch))
       /\ Calling({"feed_audio_f32"})
            => \E x \in F32Chunks, r \in Rates, ch \in Channels :
                  FeedOutcome(WireBytes(f32_to_i16(x), r, ch))
       /\ Calling(Feeds) => UNCHANGED <<process, reader, stdin, workers, input_mode>>]_vars

\* feed_audio_f32 has returned Ok after writing the bytes of the sample -32767,
\* the quantised -2.0
C32_Witness ==
    /\ last.op = "feed_audio_f32" /\ last.res = "ok"
    /\ stdinPipe = ToLeBytes(<<-32767>>)

\* C34: a poll_result() made while only the prefix of a line has arrived
\* returns "no result yet", and the line, once complete, is returned whole by
\* a later poll_result().
C34_PrefixSurvivesPoll ==
    [][/\ (Calling({"poll_result"}) /\ reader # 0 /\ workers[reader] = "alive"
            /\ stdout = <<>> /\ partial)
            => (last'.res = "none" /\ pc' = "idle" /\ partial')
       /\ (last'.op = "worker" /\ partial /\ ~partial')
            => \E l \in Lines \cup {Trunc} : stdout' = Append(stdout, l)]_vars

C36_NoResultAcrossRestart ==
    [][/\ last'.op \in {"stop", "drop"}
            => (stdout' = <<>> /\ ~partial' /\ reader' = 0)
       /\ (last'.op = "start" /\ last'.res = "ok")
            => /\ stdout' = <<>> /\ ~partial'
               /\ reader' # reader /\ workers[reader'] = "unborn"
       /\ (last'.op = "worker" /\ (stdout' # stdout \/ partial' # partial))
            => (reader # 0 /\ workers[reader] = "alive" /\ reader' = reader)
       /\ last'.res = "result"
            => (reader # 0 /\ reader' = reader /\ stdout # <<>>
                /\ last'.val = Decode(Head(stdout)).val)]_vars

\* the second worker's result has been returned after the first was stopped
C36_Witness ==
    /\ last.op = "poll_result" /\ last.res = "result"
    /\ reader = 2 /\ workers[1] = "reaped"

\* the caller is inside write_all on a full stdin pipe of a live worker that
\* is itself inside a write to its full stdout pipe
PipeDeadlock ==
    /\ pc \in Feeds /\ pending # <<>>
    /\ stdin # 0 /\ stdin = reader /\ workers[stdin] = "alive"
    /\ Len(stdinPipe) = PipeCap
    /\ partial /\ Len(stdout) >= MaxOut

\* C33: the caller is never blocked writing to the worker's full stdin pipe
\* while the worker is blocked writing to its full stdout pipe, which the
\* caller, being inside feed_audio_*, does not read.
C33_NoPipeDeadlock == ~PipeDeadlock

(* =================== properties of the normalisation =================== *)
Normalized == norm.stage = "normalized"

\* C23: with source_rate 16000 and channel_count 1 the normalised sequence is
\* the input sequence, sample for sample, and the bytes written encode it.
C23_IdentityAtTargetMono ==
    (Normalized /\ norm.sample_rate = TARGET_RATE /\ norm.channels = 1)
        => /\ norm.mono = norm.samples
           /\ Len(norm.bytes) = 2 * Len(norm.samples)

\* a full-length 16 kHz mono chunk holding both extremes has been normalised
C23_Witness ==
    /\ Normalized /\ norm.sample_rate = TARGET_RATE /\ norm.channels = 1
    /\ Len(norm.samples) = MaxSamples
    /\ norm.samples[1] = -32768 /\ norm.samples[2] = 32767

\* the least k with k * R >= n * 16000, i.e. ceil(n * 16000 / R)
IsCeilLen(k, n, R) ==
    /\ k * R >= n * TARGET_RATE
    /\ k > 0 => (k - 1) * R < n * TARGET_RATE

\* C24: every resampling call with a source rate R other than 16000 returns
\* an output of length ceil(n * 16000 / R), or a shorter one whose next source
\* index lies past the last sample.
C24_ResampledLength ==
    (norm.stage \in {"normalized", "panicked"} /\ norm.sample_rate # TARGET_RATE)
        => /\ Normalized
           /\ \/ IsCeilLen(Len(norm.resampled), Len(norm.samples), norm.sample_rate)
              \/ /\ \E k \in Len(norm.resampled)..(2 * MaxSamples) :
                        IsCeilLen(k, Len(norm.samples), norm.sample_rate)
                 /\ (Len(norm.resampled) * norm.sample_rate) \div TARGET_RATE
                        >= Len(norm.samples)

\* C25 (as stated): a 2-channel sequence is mixed down frame by frame to
\* floor((a + b) / 2), negative odd sums included.
C25_DownmixRoundsDown ==
    (Normalized /\ norm.channels = 2)
        => /\ Len(norm.mono) = Len(norm.resampled) \div 2
           /\ \A f \in 1..Len(norm.mono) :
                 norm.mono[f] = (norm.resampled[2 * f - 1] + norm.resampled[2 * f]) \div 2

Abs(x) == IF x < 0 THEN -x ELSE x

\* C25 (amended): a 2-channel sequence is mixed down frame by frame to
\* (a + b) / 2 rounded toward zero: the value q with the sign of the sum and
\* 2|q| the largest even number not above |a + b|; one value per whole frame,
\* each within the 16-bit signed range.
C25_DownmixTruncates ==
    (Normalized /\ norm.channels = 2)
        => /\ Len(norm.mono) = Len(norm.resampled) \div 2
           /\ \A f \in 1..Len(norm.mono) :
                 LET sum == norm.resampled[2 * f - 1] + norm.resampled[2 * f]
                     q == norm.mono[f]
                 IN  /\ 2 * Abs(q) <= Abs(sum) /\ Abs(sum) - 2 * Abs(q) <= 1
                     /\ sum >= 0 => q >= 0
                     /\ sum <= 0 => q <= 0
                     /\ q \in -32768..32767

\* a stereo frame with a negative odd sum has been mixed down
C25_Witness ==
    /\ Normalized /\ norm.channels = 2 /\ Len(norm.mono) >= 1
    /\ LET sum == norm.resampled[1] + norm.resampled[2]
       IN  sum < 0 /\ sum % 2 = 1

\* the f32 input of this run has been quantised
Quantized == norm.f32 # <<>> /\ norm.stage # "feed_audio_f32"

\* C26: quantisation gives one i16 per f32 sample: 32767 for 1.0 and for
\* everything above it, -32767 for -1.0 and for everything below it.
C26_QuantizeBounds ==
    Quantized
        => /\ Len(norm.samples) = Len(norm.f32)
           /\ \A i \in 1..Len(norm.f32) :
                 /\ norm.f32[i] >= 2 => norm.samples[i] = 32767
                 /\ norm.f32[i] <= -2 => norm.samples[i] = -32767

\* a constant 1.0 input of full length, and an input holding -1.0 and a value
\* below it, have been quantised
C26_Witness ==
    /\ Quantized /\ Len(norm.f32) = MaxSamples
    /\ \/ \A i \in 1..MaxSamples : norm.f32[i] = 2
       \/ norm.f32[1] = -2 /\ norm.f32[2] = -4

\* C27: normalisation never aborts, whatever the rate and the channel count,
\* and an empty input gives an empty output.
C27_NormalizationTotal ==
    /\ norm.stage # "panicked"
    /\ (Normalized /\ norm.samples = <<>>) => (norm.mono = <<>> /\ norm.bytes = <<>>)

\* C30: the bytes written are those of to_mono(resample(samples, rate),
\* channels): the raw interleaved sequence is resampled, and the resampled
\* sequence is mixed down.
C30_ResampleThenDownmix ==
    Normalized
        => /\ norm.resampled = resample_i16(norm.samples, norm.sample_rate, norm.channels)
           /\ norm.mono = to_mono_i16(norm.resampled, norm.channels)
           /\ norm.bytes = ToLeBytes(norm.mono)

\* a chunk has been normalised for which mixing down first would have given
\* other samples
C30_Witness ==
    /\ Normalized /\ norm.channels = 2 /\ norm.sample_rate = 8000
    /\ norm.mono # resample_i16(to_mono_i16(norm.samples, norm.channels),
                                norm.sample_rate, norm.channels)

\* x is the rational num / den (den > 0) rounded toward zero
IsTruncOf(x, num, den) ==
    /\ den * Abs(x) <= Abs(num) /\ Abs(num) < den * Abs(x) + den
    /\ num >= 0 => x >= 0
    /\ num <= 0 => x <= 0

\* C31: for a source rate R other than 16000, output sample i is taken at
\* source position i * R / 16000: with idx its whole part and frac its
\* fractional part, the sample is samples[idx] + (samples[idx+1] -
\* samples[idx]) * frac rounded toward zero and within the 16-bit range, or
\* samples[idx] itself when idx is the last index.
C31_LinearInterpolation ==
    (Normalized /\ norm.sample_rate # TARGET_RATE)
        => \A k \in 1..Len(norm.resampled) :
              LET pos == (k - 1) * norm.sample_rate
                  idx == pos \div TARGET_RATE
                  fracNum == pos % TARGET_RATE
                  n == Len(norm.samples)
              IN  /\ idx < n
                  /\ norm.resampled[k] \in -32768..32767
                  /\ IF idx + 1 < n
                     THEN IsTruncOf(norm.resampled[k],
                                    norm.samples[idx + 1] * TARGET_RATE
                                      + (norm.samples[idx + 2] - norm.samples[idx + 1]) * fracNum,
                                    TARGET_RATE)
                     ELSE norm.resampled[k] = norm.samples[idx + 1]

\* an upsampled chunk holds a sample interpolated half-way between -3 and 2
\* (-0.5, written as 0) and ends with the last input sample repeated
C31_Witness ==
    /\ Normalized /\ norm.sample_rate = 8000
    /\ Len(norm.samples) >= 2 /\ norm.samples[1] = -3 /\ norm.samples[2] = 2
    /\ norm.resampled[2] = 0
    /\ norm.resampled[Len(norm.resampled)] = norm.samples[Len(norm.samples)]

\* C37: for more than one channel the downmix gives one sample per complete
\* frame, floor(len / c) in all, each the mean of the c values of its own
\* frame; values after the last complete frame are not used.
C37_DownmixWholeFrames ==
    (Normalized /\ norm.channels > 1)
        => LET c == norm.channels
               len == Len(norm.resampled)
           IN  /\ Len(norm.mono) * c <= len /\ len < (Len(norm.mono) + 1) * c
               /\ \A f \in 1..Len(norm.mono) :
                     LET at(j) == norm.resampled[(f - 1) * c + j]
                         sum == IF c = 2 THEN at(1) + at(2) ELSE at(1) + at(2) + at(3)
                     IN  IsTruncOf(norm.mono[f], sum, c)

\* a sequence that ends in an incomplete frame has been mixed down
C37_Witness ==
    /\ Normalized /\ norm.channels > 1
    /\ Len(norm.resampled) % norm.channels # 0
    /\ Len(norm.mono) >= 1
====
